---- MODULE Spec2Model ----
(***************************************************************************)
(* Model of pyethereum/peer.py: one Peer (a StoppableLoopThread) owning a  *)
(* socket and a response_queue.  Two threads of control are modelled: the  *)
(* peer's own loop thread ("loop", running loop_body repeatedly) and the    *)
(* owning node's thread ("owner", calling stop() and send_Hello()); other  *)
(* producer threads call send_packet(), whose Queue.put is one atomic step.*)
(* A packet is a sequence of bytes; the socket's partial writes take a     *)
(* non-empty prefix of it.                                                 *)
(***************************************************************************)
EXTENDS Integers, Sequences, FiniteSets, TLC

\* ------------------------------------------------------------------ bounds
\* what the environment does to the connection at most: the chunks the remote
\* end delivers, the send_packet/send_Hello calls of other threads and the
\* stop() calls of the owner, taken together
MaxEvents == 3

\* --------------------------------------------------------- codec (packeter)
PROTOCOL_VERSION == 8
NETWORK_ID == 0
NoReason == "None"

\* utils.big_endian_to_int: a byte string read as a base-256 number
RECURSIVE idec(_)
idec(s) == IF s = <<>> THEN 0
           ELSE idec(SubSeq(s, 1, Len(s) - 1)) * 256 + s[Len(s)]

\* encoded packets: a command byte followed by one payload byte
dump_Hello == <<"Hello", "hello-payload">>
dump_Pong == <<"Pong", "">>
dump_GetTransactions == <<"GetTransactions", "">>
dump_Transactions == <<"Transactions", "txs">>
dump_Disconnect(r) == <<"Disconnect", r>>

\* what the remote end can deliver in one chunk: a decodable command with
\* its data fields, or bytes the decoder rejects
Msg(c, d) == [cmd |-> c, data |-> d]
Garbage == Msg("#undecodable", <<>>)
HelloData(ver, net, nid) == <<ver, net, <<1>>, <<2>>, <<3>>, nid>>
NodeA == <<65>>
NodeB == <<66>>
InMsgs ==
  { Msg("Hello", HelloData(<<8>>, <<>>, NodeA)),
    Msg("Hello", HelloData(<<8>>, <<>>, NodeB)),
    Msg("Hello", <<<<8>>, <<0>>>>),
    Msg("Hello", <<<<8>>>>),
    Msg("Hello", HelloData(<<7>>, <<>>, NodeA)),
    Msg("Hello", HelloData(<<8>>, <<1>>, NodeB)),
    Msg("Ping", <<>>),
    Msg("Pong", <<>>),
    Msg("Disconnect", <<>>),
    Msg("Status", <<>>),
    Garbage }

\* packeter.load_cmd on the receive buffer: the first command of the buffer,
\* or a decoding error
load_cmd_fails(buf) == Head(buf) = Garbage
load_cmd(buf) == Head(buf)

RECURSIVE Flatten(_)
Flatten(ss) == IF ss = <<>> THEN <<>> ELSE Head(ss) \o Flatten(Tail(ss))

IsPrefix(a, b) == Len(a) <= Len(b) /\ SubSeq(b, 1, Len(a)) = a

\* -------------------------------------------------------------------- state
VARIABLES
  stopped,                    \* StoppableLoopThread's flag
  sock,                       \* self._connection: "open", "shutdown", "closed"
  response_queue,             \* self.response_queue
  hello_received, hello_sent, node_id,
  last_valid_packet_received,
  pc,                         \* position of each thread
  packet,                     \* _process_send's local: the unsent remainder
  recv_buf,                   \* _process_recv's local packet: chunks read
  send_size, recv_size,       \* loop_body's locals
  reason,                     \* send_Disconnect's argument while it runs
  events,                     \* what the environment did so far; the clock
  \* history, kept since the queue was last drained onto the socket
  enq_log,                    \* the packets put on response_queue, in order
  popped,                     \* the packets taken off response_queue
  wire,                       \* the bytes the socket accepted, in order
  stop_calls, shutdown_calls, close_calls,
  disc_idx,                   \* place in the queue of send_Disconnect's packet
  \* history of the running loop_body
  sent_bytes,                 \* bytes its send step wrote to the socket
  io_failed,                  \* a socket call of it met a transport failure
  \* what the last step did to the outside
  slept,                      \* it took loop_body's idle sleep
  signals,                    \* the notifications it published, in order
  sock_call,                  \* the socket call it made: "send", "recv"
  dispatched                  \* the commands whose handlers it ran, in order

vars == <<stopped, sock, response_queue, hello_received, hello_sent, node_id,
          last_valid_packet_received, pc, packet, recv_buf, send_size,
          recv_size, reason, events, enq_log, popped,
          wire, stop_calls, shutdown_calls, close_calls, disc_idx, slept,
          signals, sock_call, sent_bytes, io_failed, dispatched>>

peer == <<hello_received, hello_sent, node_id, last_valid_packet_received>>
sendv == <<packet, popped, wire, send_size>>
recvv == <<recv_buf, recv_size>>
stopv == <<stopped, sock, stop_calls, shutdown_calls, close_calls>>
queuev == <<response_queue, enq_log>>
discv == <<reason, disc_idx>>
iterv == <<sent_bytes, io_failed>>
extv == <<events>>

Threads == {"loop", "owner"}

\* a notification: its name, the function publishing it, its arguments
Signal(n, f, p, r) == [name |-> n, by |-> f, packet |-> p, reason |-> r]

Init ==
  /\ stopped = FALSE
  /\ sock = "open"
  /\ response_queue = <<>>
  /\ hello_received = FALSE
  /\ hello_sent = FALSE
  /\ node_id = <<>>
  /\ last_valid_packet_received = 0
  /\ pc = [t \in Threads |-> IF t = "loop" THEN "run" ELSE "idle"]
  /\ packet = <<>>
  /\ recv_buf = <<>>
  /\ send_size = 0
  /\ recv_size = 0
  /\ reason = NoReason
  /\ events = 0
  /\ enq_log = <<>>
  /\ popped = <<>>
  /\ wire = <<>>
  /\ stop_calls = 0
  /\ shutdown_calls = 0
  /\ close_calls = 0
  /\ disc_idx = 0
  /\ slept = FALSE
  /\ signals = <<>>
  /\ sock_call = "none"
  /\ sent_bytes = 0
  /\ io_failed = FALSE
  /\ dispatched = <<>>

Goto(t, l) == pc' = [pc EXCEPT ![t] = l]

\* a step that publishes nothing and makes no socket call
NoSignal == signals' = <<>>
NoCall == sock_call' = "none"
NoSleep == slept' = FALSE
NoDispatch == dispatched' = <<>>

\* one more event of the environment
Event == events < MaxEvents /\ events' = events + 1
Quiet == NoSignal /\ NoCall /\ NoSleep /\ NoDispatch

\* ------------------------------------------------------------- Peer.stop
\* where stop() returns to: the send step's break, or the owner's caller
AfterStop(t) == IF t = "loop" THEN "recv_conn" ELSE "idle"

\* super(Peer, self).stop(): the base class sets the flag
super_stop == stopped' = TRUE

stop_without_super(t) ==
  /\ UNCHANGED stopped
  /\ stop_calls' = stop_calls + 1
  /\ Goto(t, "stop_shutdown")
  /\ UNCHANGED <<sock, shutdown_calls, close_calls>>

\* stop(), first statement; t is the calling thread
stop(t) ==
  /\ super_stop
  /\ stop_calls' = stop_calls + 1
  /\ Goto(t, "stop_shutdown")
  /\ UNCHANGED <<sock, shutdown_calls, close_calls>>

\* self._connection.shutdown(SHUT_RDWR); an IOError is logged
stop_shutdown(t) ==
  /\ pc[t] = "stop_shutdown"
  /\ shutdown_calls' = shutdown_calls + 1
  /\ \/ sock = "open" /\ sock' = "shutdown"
     \/ UNCHANGED sock
  /\ Goto(t, "stop_close")
  /\ UNCHANGED <<stopped, stop_calls, close_calls, peer, sendv, recvv,
                 queuev, discv, iterv, extv>>
  /\ Quiet

\* self._connection.close()
stop_close(t) ==
  /\ pc[t] = "stop_close"
  /\ close_calls' = close_calls + 1
  /\ sock' = "closed"
  /\ Goto(t, AfterStop(t))
  /\ UNCHANGED <<stopped, stop_calls, shutdown_calls, peer, sendv, recvv,
                 queuev, discv, iterv, extv>>
  /\ Quiet

\* the owning node calls stop() from its own thread
OwnerStop ==
  /\ pc["owner"] = "idle"
  /\ Event
  /\ stop("owner")
  /\ UNCHANGED <<peer, sendv, recvv, queuev, discv, iterv>>
  /\ Quiet

\* -------------------------------------------------------- Peer.send_packet
send_packet(response) ==
  /\ response_queue' = Append(response_queue, response)
  /\ enq_log' = Append(enq_log, response)

\* a producer thread (an async data callback, a timer) enqueues a packet
ExtPackets == {dump_Transactions}
ProducerSend ==
  /\ Event
  /\ \E p \in ExtPackets : send_packet(p)
  /\ UNCHANGED <<stopv, peer, sendv, recvv, discv, iterv, pc>>
  /\ Quiet

\* ---------------------------------------------------- StoppableLoopThread.run
\* while not self.stopped(): self.loop_body()
run ==
  /\ pc["loop"] = "run"
  /\ Goto("loop", IF stopped THEN "done" ELSE "send_get")
  /\ UNCHANGED <<stopv, peer, sendv, recvv, queuev, discv, iterv, extv>>
  /\ Quiet

\* ----------------------------------------------------- Peer._process_send
QueueGet_last(q) == q[Len(q)]

\* which element response_queue.get hands out, and what it leaves
QueueGet(q) == Head(q)
QueueRest(q) == Tail(q)

SendNext_once(p) == "recv_conn"

\* where the send step goes with the remainder p: another write, or return
SendNext(p) == IF p # <<>> THEN "send_conn" ELSE "recv_conn"

\* the packet_sending signal at the head of `while packet`
Sending(p) ==
  IF p # <<>> THEN <<Signal("packet_sending", "_process_send", p, NoReason)>>
  ELSE <<>>

\* response_queue.get(block=False), and the first test of `while packet`
process_send_get ==
  /\ pc["loop"] = "send_get"
  /\ IF response_queue = <<>>
       THEN /\ packet' = <<>>
            /\ UNCHANGED <<response_queue, popped>>
       ELSE /\ packet' = QueueGet(response_queue)
            /\ response_queue' = QueueRest(response_queue)
            /\ popped' = Append(popped, QueueGet(response_queue))
  /\ signals' = Sending(packet')
  /\ Goto("loop", SendNext(packet'))
  /\ UNCHANGED <<stopv, peer, recvv, enq_log, wire, send_size, discv, iterv, extv>>
  /\ NoCall /\ NoSleep /\ NoDispatch

\* self.connection(): raises IOError when stopped
process_send_conn ==
  /\ pc["loop"] = "send_conn"
  /\ Goto("loop", IF stopped THEN "send_fail" ELSE "send_call")
  /\ UNCHANGED <<stopv, peer, sendv, recvv, queuev, discv, iterv, extv>>
  /\ Quiet

Unsent_dropped(p, n) == <<>>

\* the remainder after the socket accepted n bytes
Unsent(p, n) == SubSeq(p, n + 1, Len(p))

\* the history after the socket accepted the bytes w: it starts afresh when
\* every packet put on the queue has been taken off it and the socket holds
\* exactly their bytes
Flushed(w, rest) ==
  /\ rest = <<>>
  /\ popped = enq_log
  /\ wire \o w = Flatten(popped)
Record(w, rest) ==
  IF Flushed(w, rest)
    THEN /\ wire' = <<>>
         /\ popped' = <<>>
         /\ enq_log' = <<>>
    ELSE /\ wire' = wire \o w
         /\ UNCHANGED <<popped, enq_log>>

\* n = <socket>.send(packet); packet = packet[n:]; the packet_sent signal
\* and the next test of `while packet`.  An IOError (a transport failure, a
\* shut down or closed socket) leads to the except clause
process_send_call ==
  /\ pc["loop"] = "send_call"
  /\ sock_call' = "send"
  /\ \/ /\ sock = "open"
        /\ \E n \in 1..Len(packet) :
             /\ Record(SubSeq(packet, 1, n), Unsent(packet, n))
             /\ packet' = Unsent(packet, n)
             /\ sent_bytes' = sent_bytes + n
        /\ UNCHANGED io_failed
        /\ signals' = <<Signal("packet_sent", "_process_send", packet',
                               NoReason)>> \o Sending(packet')
        /\ Goto("loop", SendNext(packet'))
     \/ /\ Goto("loop", "send_fail")
        /\ io_failed' = TRUE
        /\ UNCHANGED <<wire, packet, popped, enq_log, sent_bytes>>
        /\ NoSignal
  /\ UNCHANGED <<stopv, peer, recvv, response_queue, discv, extv, send_size>>
  /\ NoSleep /\ NoDispatch

\* except IOError: self.stop(); break; return len(packet)
process_send_fail ==
  /\ pc["loop"] = "send_fail"
  /\ stop("loop")
  /\ send_size' = Len(packet)
  /\ packet' = <<>>
  /\ UNCHANGED <<peer, recvv, queuev, discv, iterv, extv, popped, wire>>
  /\ Quiet

\* ----------------------------------------------------- Peer._process_recv
\* self.connection() in the read loop: an IOError gives chunk = ''
process_recv_conn ==
  /\ pc["loop"] = "recv_conn"
  /\ Goto("loop", IF stopped THEN "dispatch" ELSE "recv_call")
  /\ UNCHANGED <<stopv, peer, sendv, recvv, queuev, discv, iterv, extv>>
  /\ Quiet

\* chunk = <socket>.recv(2048): a chunk is appended and the loop reads again;
\* an empty chunk ends the loop, and so does an IOError (a transport failure,
\* a shut down or closed socket), which `except IOError: chunk = ''` turns
\* into an empty chunk
process_recv_call ==
  /\ pc["loop"] = "recv_call"
  /\ sock_call' = "recv"
  /\ \/ /\ sock = "open"
        /\ Event
        /\ \E m \in InMsgs : recv_buf' = Append(recv_buf, m)
        /\ Goto("loop", "recv_conn")
        /\ UNCHANGED io_failed
     \/ /\ sock = "open"
        /\ Goto("loop", "dispatch")
        /\ UNCHANGED <<recv_buf, events, io_failed>>
     \/ /\ io_failed' = TRUE
        /\ Goto("loop", "dispatch")
        /\ UNCHANGED <<recv_buf, events>>
  /\ UNCHANGED <<stopv, peer, sendv, queuev, discv, sent_bytes, recv_size>>
  /\ NoSignal /\ NoSleep /\ NoDispatch

\* ----------------------------------------------------------- the handlers
\* send_Disconnect(reason), up to the sleep: the packet is enqueued
send_Disconnect(r) ==
  /\ send_packet(dump_Disconnect(NoReason))
  /\ reason' = r
  /\ disc_idx' = Len(response_queue) + 1
  /\ Goto("loop", "disc_sleep")
  /\ UNCHANGED <<hello_received, hello_sent, node_id, iterv>>
  /\ NoSignal

send_Disconnect_notify_closing ==
  /\ pc["loop"] = "disc_sleep"
  /\ signals' = <<Signal("disconnect_requested", "send_Disconnect", <<>>,
                         NoReason)>>
  /\ sock' = "closed"
  /\ Goto("loop", "pause")
  /\ UNCHANGED <<stopped, stop_calls, shutdown_calls, close_calls, peer,
                 sendv, recvv, queuev, discv, iterv, extv>>
  /\ NoCall /\ NoSleep /\ NoDispatch

\* send_Disconnect after time.sleep(2): the notification
send_Disconnect_notify ==
  /\ pc["loop"] = "disc_sleep"
  /\ signals' = <<Signal("disconnect_requested", "send_Disconnect", <<>>,
                         NoReason)>>
  /\ Goto("loop", "pause")
  /\ UNCHANGED <<stopv, peer, sendv, recvv, queuev, discv, iterv, extv>>
  /\ NoCall /\ NoSleep /\ NoDispatch

HelloVersionOk_any(data) == TRUE
HelloReplies_always(sent) == TRUE

\* _recv_Hello's two compatibility checks and its two assignments
HelloVersionOk(data) == idec(data[1]) = PROTOCOL_VERSION
HelloNetworkOk(data) == idec(data[2]) = NETWORK_ID
HelloNodeId(data, old) == IF Len(data) = 6 THEN data[6] ELSE old
HelloReplies(sent) == ~sent

\* an uncaught exception ends the loop thread
raise ==
  /\ Goto("loop", "crashed")
  /\ UNCHANGED <<hello_received, hello_sent, node_id, queuev, discv, iterv>>
  /\ NoSignal

recv_Hello(data) ==
  IF Len(data) < 1 THEN raise
  ELSE IF ~HelloVersionOk(data)
    THEN send_Disconnect("Incompatible network protocols")
  ELSE IF Len(data) < 2 THEN raise
  ELSE IF ~HelloNetworkOk(data)
    THEN send_Disconnect("Wrong genesis block")
  ELSE
    /\ hello_received' = TRUE
    /\ node_id' = HelloNodeId(data, node_id)
    /\ IF HelloReplies(hello_sent)
         THEN send_packet(dump_Hello) /\ hello_sent' = TRUE
         ELSE UNCHANGED <<queuev, hello_sent>>
    /\ Goto("loop", "pause")
    /\ UNCHANGED <<discv, iterv>>
    /\ NoSignal

recv_Ping_twice(data) ==
  /\ response_queue' = response_queue \o <<dump_Pong, dump_Pong>>
  /\ enq_log' = enq_log \o <<dump_Pong, dump_Pong>>
  /\ Goto("loop", "pause")
  /\ UNCHANGED <<hello_received, hello_sent, node_id, discv, iterv>>
  /\ NoSignal

\* _recv_Ping: self.send_Pong()
recv_Ping(data) ==
  /\ send_packet(dump_Pong)
  /\ Goto("loop", "pause")
  /\ UNCHANGED <<hello_received, hello_sent, node_id, discv, iterv>>
  /\ NoSignal

\* _recv_Pong: self.send_GetTransactions()
recv_Pong(data) ==
  /\ send_packet(dump_GetTransactions)
  /\ Goto("loop", "pause")
  /\ UNCHANGED <<hello_received, hello_sent, node_id, discv, iterv>>
  /\ NoSignal

recv_Disconnect(data) ==
  /\ signals' = <<Signal("disconnect_requested", "_recv_Disconnect", <<>>,
                         NoReason)>>
  /\ Goto("loop", "pause")
  /\ UNCHANGED <<hello_received, hello_sent, node_id, queuev, discv, iterv>>

unknown_cmd ==
  /\ Goto("loop", "pause")
  /\ UNCHANGED <<hello_received, hello_sent, node_id, queuev, discv, iterv>>
  /\ NoSignal

bad_packet_stamped ==
  /\ send_Disconnect("Bad protocol")
  /\ last_valid_packet_received' = events

\* load_cmd raised: `return self.send_Disconnect(reason='Bad protocol')`
bad_packet ==
  /\ send_Disconnect("Bad protocol")
  /\ UNCHANGED last_valid_packet_received

\* the commands of InMsgs that have a _recv_<cmd> method
Handlers == {"Hello", "Ping", "Pong", "Disconnect"}

\* the handlers one call of _recv_packet runs on the bytes of a receive step:
\* load_cmd is applied to the whole buffer once, and one handler is looked up
Dispatch(buf) ==
  IF buf = <<>> \/ load_cmd_fails(buf) THEN <<>>
  ELSE IF load_cmd(buf).cmd \in Handlers THEN <<load_cmd(buf).cmd>>
  ELSE <<>>

\* `if packet: self._recv_packet(packet)`, `return len(packet)`: decoding,
\* the timestamp and the dispatch on the command name
recv_packet ==
  /\ pc["loop"] = "dispatch"
  /\ recv_size' = Len(recv_buf)
  /\ recv_buf' = <<>>
  /\ IF recv_buf = <<>>
       THEN /\ Goto("loop", "pause")
            /\ UNCHANGED <<peer, queuev, discv, iterv>>
            /\ NoSignal
     ELSE IF load_cmd_fails(recv_buf)
       THEN bad_packet
     ELSE
       /\ last_valid_packet_received' = events
       /\ LET cmd == load_cmd(recv_buf).cmd
              data == load_cmd(recv_buf).data
          IN  CASE cmd = "Hello" -> recv_Hello(data)
                [] cmd = "Ping" -> recv_Ping(data)
                [] cmd = "Pong" -> recv_Pong(data)
                [] cmd = "Disconnect" -> recv_Disconnect(data)
                [] OTHER -> unknown_cmd
  /\ dispatched' = Dispatch(recv_buf)
  /\ UNCHANGED <<stopv, sendv, extv>>
  /\ NoCall /\ NoSleep

\* ------------------------------------------------------- Peer.loop_body
\* `if not (send_size or recv_size): time.sleep(0.1)`; the iteration's
\* locals go out of scope
pause ==
  /\ pc["loop"] = "pause"
  /\ slept' = ~(send_size # 0 \/ recv_size # 0)
  /\ send_size' = 0
  /\ recv_size' = 0
  /\ reason' = NoReason
  /\ disc_idx' = 0
  /\ sent_bytes' = 0
  /\ io_failed' = FALSE
  /\ Goto("loop", "run")
  /\ UNCHANGED <<stopv, peer, packet, popped, wire, recv_buf, queuev, extv>>
  /\ NoSignal /\ NoCall /\ NoDispatch

\* ------------------------------------------------ send_Hello by the owner
\* self.send_packet(packeter.dump_Hello())
OwnerSendHello ==
  /\ pc["owner"] = "idle"
  /\ Event
  /\ send_packet(dump_Hello)
  /\ Goto("owner", "hello_flag")
  /\ UNCHANGED <<stopv, peer, sendv, recvv, discv, iterv>>
  /\ Quiet

\* self.hello_sent = True
OwnerHelloSent ==
  /\ pc["owner"] = "hello_flag"
  /\ hello_sent' = TRUE
  /\ Goto("owner", "idle")
  /\ UNCHANGED <<stopv, hello_received, node_id, last_valid_packet_received,
                 sendv, recvv, queuev, discv, iterv, extv>>
  /\ Quiet

Next ==
  \/ run
  \/ process_send_get
  \/ process_send_conn
  \/ process_send_call
  \/ process_send_fail
  \/ process_recv_conn
  \/ process_recv_call
  \/ recv_packet
  \/ send_Disconnect_notify
  \/ pause
  \/ \E t \in Threads : stop_shutdown(t)
  \/ \E t \in Threads : stop_close(t)
  \/ OwnerStop
  \/ OwnerSendHello
  \/ OwnerHelloSent
  \/ ProducerSend

Spec == Init /\ [][Next]_vars

\* the loop thread is scheduled: inside _process_send, and inside a stop()
\* called from it, the next statement is eventually executed (the socket
\* calls return, with bytes accepted or with an IOError)
SendFairness ==
  /\ WF_vars(process_send_get)
  /\ WF_vars(process_send_conn)
  /\ WF_vars(process_send_call)
  /\ WF_vars(process_send_fail)
  /\ WF_vars(stop_shutdown("loop"))
  /\ WF_vars(stop_close("loop"))
FairSpec == Spec /\ SendFairness

\* ================================================================ claims
StopRunning == \E t \in Threads : pc[t] \in {"stop_shutdown", "stop_close"}

\* C1: stopped is false in every state before the first stop() call and true
\* in every state after it, whoever made the call; no step resets it
C1_StoppedOneWay ==
  /\ [](stopped <=> stop_calls > 0)
  /\ [][stopped => stopped']_vars

\* stop() was called by the send step after a write failure and by the owner
C1_Witness == stopped /\ stop_calls >= 2 /\ ~StopRunning

\* C2: whatever the number of stop() calls, the socket sees at most one
\* shutdown attempt and at most one close attempt
C2_ShutdownOnce == shutdown_calls <= 1 /\ close_calls <= 1

\* C3: once stopped is true no send and no recv is called on the socket, and
\* (stop() having run to its end) the socket is closed
C3_NoUseAfterStop ==
  stopped => /\ sock_call = "none"
             /\ ~StopRunning => sock = "closed"

\* C4: the bytes the socket accepted are the bytes of the enqueued packets,
\* in insertion order and packet by packet, whatever the producers'
\* interleaving and however the socket splits the writes
C4_WireOrder == IsPrefix(wire, Flatten(enq_log))

\* two producers' packets: the first partially written, then completed, and
\* the second begun
C4_Witness ==
  /\ Len(wire) = 3
  /\ Len(enq_log) >= 2
  /\ enq_log[1] # enq_log[2]
  /\ Len(packet) = 1

\* C5: while the connection is not stopped, the packets taken off the queue
\* are wholly on the socket, but for the unsent remainder the send step
\* still holds
C5_NoLoss == ~stopped => wire \o packet = Flatten(popped)

\* not stopped, one packet flushed and the next half written
C5_Witness ==
  /\ ~stopped
  /\ Len(popped) = 2
  /\ Len(packet) = 1
  /\ pc["loop"] = "send_conn"

\* the loop thread's step that decodes the received buffer, whose first
\* command is m, and runs m's handler
Dispatching(m) ==
  /\ pc["loop"] = "dispatch"
  /\ pc'["loop"] # "dispatch"
  /\ recv_buf # <<>>
  /\ Head(recv_buf) = m

\* a Hello with the expected protocol version and network id
ValidHello(m) ==
  /\ m.cmd = "Hello"
  /\ Len(m.data) >= 2
  /\ idec(m.data[1]) = PROTOCOL_VERSION
  /\ idec(m.data[2]) = NETWORK_ID

\* a Hello with another protocol version, or with the expected version and
\* another network id
MismatchedHello(m) ==
  /\ m.cmd = "Hello"
  /\ Len(m.data) >= 1
  /\ \/ idec(m.data[1]) # PROTOCOL_VERSION
     \/ Len(m.data) >= 2 /\ idec(m.data[2]) # NETWORK_ID

\* q2 is q with one packet of command c put at its end
EnqueuedOne(q, q2, c) ==
  /\ Len(q2) = Len(q) + 1
  /\ SubSeq(q2, 1, Len(q)) = q
  /\ q2[Len(q2)][1] = c

\* the handler's step on a valid Hello
ValidAnswered ==
  \A m \in InMsgs :
    (Dispatching(m) /\ ValidHello(m)) =>
      (/\ hello_received'
       /\ hello_sent'
       /\ IF hello_sent
            THEN response_queue' = response_queue
            ELSE response_queue' = Append(response_queue, dump_Hello))

\* C6: a valid Hello sets hello_received; it is answered by exactly one
\* Hello when hello_sent was false and by none when it was true; hello_sent
\* is never reset, so at most one Hello is ever sent in reply
C6_HelloReply == [][(hello_sent => hello_sent') /\ ValidAnswered]_vars

\* a valid Hello was the first thing to happen and was answered
C6_Witness ==
  /\ hello_received /\ hello_sent
  /\ events = 1
  /\ pc["loop"] = "pause"
  /\ response_queue = <<dump_Hello>>

\* the handler's step on a mismatched Hello
MismatchAnswered ==
  \A m \in InMsgs :
    (Dispatching(m) /\ MismatchedHello(m)) =>
      (/\ EnqueuedOne(response_queue, response_queue', "Disconnect")
       /\ UNCHANGED <<hello_received, hello_sent, node_id>>
       /\ pc'["loop"] = "disc_sleep")

\* send_Disconnect's step after its sleep: it returns to loop_body
DisconnectReturns ==
  (pc["loop"] = "disc_sleep" /\ pc'["loop"] # "disc_sleep") =>
    (/\ pc'["loop"] = "pause"
     /\ UNCHANGED <<response_queue, hello_received, hello_sent, node_id>>)

\* C7: a mismatched Hello enqueues exactly one Disconnect and nothing else;
\* hello_received, hello_sent and node_id stay as they were, also while
\* send_Disconnect sleeps and notifies; the handler then returns
C7_HelloMismatch ==
  /\ [](pc["loop"] = "disc_sleep" => ENABLED send_Disconnect_notify)
  /\ [][MismatchAnswered /\ DisconnectReturns]_vars

\* a Hello of another protocol version has been answered with a Disconnect
C7_Witness ==
  /\ pc["loop"] = "disc_sleep"
  /\ reason = "Incompatible network protocols"
  /\ ~hello_received /\ ~hello_sent

\* send_Disconnect's packet is still on the queue
DisconnectQueued ==
  /\ disc_idx \in 1..Len(response_queue)
  /\ response_queue[disc_idx][1] = "Disconnect"

\* the disconnect-requested notifications send_Disconnect published in the
\* last step
DisconnectSignals ==
  {i \in DOMAIN signals : /\ signals[i].name = "disconnect_requested"
                          /\ signals[i].by = "send_Disconnect"}

\* C8: the Disconnect packet send_Disconnect(reason) enqueues and the
\* notification it publishes carry that reason
C8_ReasonCarried ==
  /\ pc["loop"] = "disc_sleep" =>
       response_queue[disc_idx] = dump_Disconnect(reason)
  /\ \A i \in DisconnectSignals : signals[i].reason = reason

\* the handler's step on a valid Hello: node_id taken from a Hello of 6
\* fields, left alone by a shorter one
NodeIdAdopted ==
  \A m \in InMsgs :
    (Dispatching(m) /\ ValidHello(m)) =>
      (\/ Len(m.data) = 6 /\ node_id' = m.data[6]
       \/ Len(m.data) < 6 /\ node_id' = node_id)

\* C9: a valid Hello of 6 fields sets node_id to its field 5, a shorter one
\* leaves node_id alone, and a node_id once set is never changed
C9_NodeIdAdoption ==
  [][NodeIdAdopted /\ (node_id # <<>> => node_id' = node_id)]_vars

\* C10: when send_Disconnect publishes disconnect-requested, its Disconnect
\* packet has left the queue for the socket (looked at on a connection that
\* nobody has stopped, where nothing else keeps the packet from the socket)
C10_SentBeforeNotified ==
  (DisconnectSignals # {} /\ ~stopped) => ~DisconnectQueued

\* a step of the Disconnect protocol: the handler of a received Disconnect,
\* or either half of send_Disconnect
DisconnectStep ==
  \/ (pc["loop"] = "dispatch" /\ dispatched' = <<"Disconnect">>)
  \/ (pc["loop"] # "disc_sleep" /\ pc'["loop"] = "disc_sleep")
  \/ (pc["loop"] = "disc_sleep" /\ pc'["loop"] # "disc_sleep")
InStop(t) == pc[t] \in {"stop_shutdown", "stop_close"}
SocketTouched ==
  \/ sock' # sock
  \/ shutdown_calls' # shutdown_calls
  \/ close_calls' # close_calls
SocketOnlyByStop ==
  SocketTouched => (\E t \in Threads : InStop(t) /\ pc'[t] # pc[t])
StopEntered(t) == ~InStop(t) /\ InStop(t)'
StopOnlyByOwnerOrSendFailure ==
  /\ (stopped' # stopped => (\E t \in Threads : StopEntered(t)))
  /\ (\A t \in Threads : StopEntered(t) =>
         ((t = "owner" /\ pc[t] = "idle") \/ (t = "loop" /\ pc[t] = "send_fail")))

\* C11: receiving or sending a Disconnect never changes the stopped flag and
\* never shuts down or closes the socket; the socket is touched only by a
\* running stop(), and stop() is entered only by the owner or by the send
\* step after a write failure
C11_DisconnectAdvisory ==
  [][ /\ (DisconnectStep => UNCHANGED <<stopped, sock, shutdown_calls, close_calls>>)
      /\ SocketOnlyByStop
      /\ StopOnlyByOwnerOrSendFailure ]_vars
C11_Witness ==
  /\ \E i \in 1..Len(signals) : signals[i].name = "disconnect_requested"
  /\ ~stopped
  /\ sock = "open"
  /\ stop_calls = 0

\* _recv_packet's step on bytes that load_cmd rejects
GarbageAnswered ==
  Dispatching(Garbage) =>
    (/\ EnqueuedOne(response_queue, response_queue', "Disconnect")
     /\ dispatched' = <<>>
     /\ UNCHANGED <<peer, stopped, sock>>
     /\ reason' = "Bad protocol"
     /\ pc'["loop"] = "disc_sleep")

\* the rest of that send_Disconnect
GarbageReturns ==
  (pc["loop"] = "disc_sleep" /\ reason = "Bad protocol"
     /\ pc'["loop"] # "disc_sleep") =>
    (/\ pc'["loop"] = "pause"
     /\ dispatched' = <<>>
     /\ UNCHANGED <<response_queue, peer, stopped, sock>>)

\* C12: undecodable bytes enqueue exactly one Disconnect and nothing else:
\* no handler runs, last_valid_packet_received, hello_received, hello_sent
\* and node_id keep their values, and stopped and the socket are left alone
C12_BadProtocol == [][GarbageAnswered /\ GarbageReturns]_vars

\* undecodable bytes have been answered on a running connection
C12_Witness ==
  /\ pc["loop"] = "pause"
  /\ reason = "Bad protocol"
  /\ ~stopped
  /\ last_valid_packet_received = 0
  /\ \E i \in 1..Len(response_queue) : response_queue[i][1] = "Disconnect"

\* the step that handles a received packet of command c puts exactly the
\* packet reply on the queue, publishes nothing and returns
Replied(c, reply) ==
  \A m \in InMsgs :
    (Dispatching(m) /\ m.cmd = c) =>
      (/\ response_queue' = Append(response_queue, reply)
       /\ dispatched' = <<c>>
       /\ signals' = <<>>
       /\ pc'["loop"] = "pause"
       /\ UNCHANGED <<hello_received, hello_sent, node_id, stopped, sock>>)
Stamped(c) ==
  \A m \in InMsgs :
    (Dispatching(m) /\ m.cmd = c) => last_valid_packet_received' = events
NotStamped(c) ==
  \A m \in InMsgs :
    (Dispatching(m) /\ m.cmd = c) => UNCHANGED last_valid_packet_received

\* C13 as stated: a Ping enqueues exactly one Pong, a Pong exactly one
\* GetTransactions, and no other connection state changes
C13_PingPongOnly ==
  [][ /\ Replied("Ping", dump_Pong) /\ NotStamped("Ping")
      /\ Replied("Pong", dump_GetTransactions) /\ NotStamped("Pong") ]_vars

\* C13: a Ping enqueues exactly one Pong, a Pong exactly one GetTransactions;
\* besides that only last_valid_packet_received changes, which takes the
\* time of the packet
C13_PingPong ==
  [][ /\ Replied("Ping", dump_Pong) /\ Stamped("Ping")
      /\ Replied("Pong", dump_GetTransactions) /\ Stamped("Pong") ]_vars

\* a Ping has been handled: its Pong is queued and its time recorded
C13_Witness ==
  /\ dispatched = <<"Ping">>
  /\ response_queue = <<dump_Pong>>
  /\ last_valid_packet_received = 1

\* the last step of loop_body
Pausing == pc["loop"] = "pause" /\ pc'["loop"] = "run"

\* C14: an iteration sleeps exactly when neither its send step wrote bytes
\* to the socket nor its receive step read any
C14_SleepIffIdle ==
  [][Pausing => (slept' <=> (sent_bytes = 0 /\ recv_size = 0))]_vars

\* C15: an iteration in which a socket write or a socket read failed has
\* called stop() by its end
C15_TransportErrorFatal == (pc["loop"] = "pause" /\ io_failed) => stopped

\* C16: no exception escapes loop_body
C16_NoEscape == pc["loop"] # "crashed"

\* the commands of the packets a receive step has read, in arrival order
Arrived == [i \in 1..Len(recv_buf) |-> recv_buf[i].cmd]

\* C17: the receive step runs one handler per packet it read, in arrival
\* order
C17_AllDispatched ==
  [][ (/\ pc["loop"] = "dispatch"
       /\ pc'["loop"] # "dispatch"
       /\ recv_buf # <<>>
       /\ \A i \in 1..Len(recv_buf) : recv_buf[i].cmd \in Handlers)
      => dispatched' = Arrived ]_vars

\* C18: packet_sent is published only when no byte of the packet is left to
\* write
C18_SentWhenFlushed ==
  \A i \in 1..Len(signals) :
    signals[i].name = "packet_sent" => signals[i].packet = <<>>

\* the handler's step on a mismatched Hello that follows an accepted one
LaterHelloIgnored ==
  \A m \in InMsgs :
    (Dispatching(m) /\ MismatchedHello(m) /\ hello_received) =>
      (/\ response_queue' = response_queue
       /\ signals' = <<>>
       /\ pc'["loop"] # "disc_sleep"
       /\ hello_received')

\* C19: hello_received never goes back to false, and a mismatched Hello
\* after an accepted one enqueues no Disconnect and publishes nothing
C19_HelloOnce ==
  [][(hello_received => hello_received') /\ LaterHelloIgnored]_vars

\* the send step: from the pop to its return
InSend(l) == l \in {"send_get", "send_conn", "send_call", "send_fail"}

\* a write that succeeded leaves strictly less of the packet to write
WriteShortens ==
  (pc["loop"] = "send_call" /\ pc'["loop"] \notin {"send_call", "send_fail"})
    => (/\ Len(packet') < Len(packet)
        /\ pc'["loop"] \in {"send_conn", "recv_conn"}
        /\ pc'["loop"] = "send_conn" <=> packet' # <<>>)

\* the step returns 0 with nothing left of the packet, or after stop() with
\* the number of bytes left, which is positive
SendReturns ==
  /\ (InSend(pc["loop"]) /\ pc'["loop"] = "recv_conn") =>
        (packet' = <<>> /\ send_size' = 0)
  /\ (pc["loop"] = "send_fail" /\ pc'["loop"] # "send_fail") =>
        (/\ packet # <<>>
         /\ send_size' = Len(packet)
         /\ stopped'
         /\ InStop("loop")')
  /\ (InStop("loop") /\ ~InStop("loop")') =>
        (pc'["loop"] = "recv_conn" /\ stopped /\ send_size > 0)

\* the queue loses a packet only at the pop, one at a time, and the pop is
\* reached only from the head of loop_body
PopsOnce ==
  /\ Len(response_queue') < Len(response_queue) =>
        (/\ pc["loop"] = "send_get"
         /\ pc'["loop"] # "send_get"
         /\ response_queue' = Tail(response_queue)
         /\ packet' = Head(response_queue))
  /\ (pc["loop"] # "send_get" /\ pc'["loop"] = "send_get") => pc["loop"] = "run"
  /\ (pc["loop"] = "run" /\ pc'["loop"] # "run") => send_size = 0

====
